---- MODULE Spec2Model ----
(***************************************************************************)
(* RegularMarkerServer (src/src/lib.rs): callers stage marker updates with *)
(* insert/delete, apply_changes commits the stage into marker_contexts,    *)
(* and one background task (marker_array_publisher) snapshots the store,   *)
(* publishes the whole snapshot, cleans it up and writes it back.          *)
(*                                                                         *)
(* Marker names are strings in the source; here they are 1..NumNames.      *)
(* A Marker is [id, pose, shape, action]: "id" stands for the marker's own *)
(* identity fields (ns, id), which the caller sets to the name it inserts  *)
(* the marker under; "pose" for the fields a Modify copies (pose, header); *)
(* "shape" for every other payload field.                                  *)
(***************************************************************************)
EXTENDS Integers, FiniteSets, Sequences, TLC

\* ---------------------------------------------------------------- bounds
NumNames == 2
NumInputs == 2
NumCallers == 2

Names == 1..NumNames
Callers == 1..NumCallers

\* ------------------------------------------------------ program constants
\* visualization_msgs/msg/Marker action codes, as the r2r bindings define
\* them (uint8 ADD=0, MODIFY=0, DELETE=2, DELETEALL=3).
ADD == 0
MODIFY == 0
DELETE == 2
DELETEALL == 3
\* The literals the publisher's cleanup matches on.
CleanupRemoveCode == 2
CleanupClearCode == 3

\* The markers a caller hands to insert: the caller chooses every field,
\* the action field included.
InputMarker(name, i) == [id |-> name, pose |-> i, shape |-> i, action |-> i]
InputMarkers(name) == {InputMarker(name, i) : i \in 1..NumInputs}
NoMarker == [id |-> 0, pose |-> 0, shape |-> 0, action |-> 0]

UpdateType == {"Add", "Modify", "Delete", "DeleteAll"}

EmptyMap == << >>
Remove(m, k) == [x \in DOMAIN m \ {k} |-> m[x]]
Put(m, k, v) == [x \in DOMAIN m \cup {k} |-> IF x = k THEN v ELSE m[x]]

\* Every order an iteration over the finite set ks can take.
Orders(ks) ==
    {s \in [1..Cardinality(ks) -> ks] : \A i, j \in DOMAIN s : i # j => s[i] # s[j]}

VARIABLES
    marker_contexts,   \* the store: name -> Marker
    pending_updates,   \* the stage: name -> UpdateContext
    locks,             \* per mutex ("store", "stage"): 0, or the caller holding it
    call,              \* per caller: the call it is inside
    pub_pc,            \* the publisher task's position
    markers,           \* the publisher's local copy of the store
    update_msg,        \* the MarkerArray the publisher built from it
    \* History variables: they record what happened and guide nothing.
    watch,             \* which history the specification records
    event,             \* the last step taken and the state before it
    del_phase,         \* per name: 1 commit tagged it Delete, 2 a snapshot
                       \* followed, 3 that snapshot's cleanup followed
    stagers,           \* the callers that called insert since the last commit
    batch,             \* the Adds the last commit drained
    noop_phase,        \* per name: 1 delete found it absent, 2 a commit followed
    sub_ids,           \* the ids a subscriber holds
    sub_got,           \* the subscriber received this tick's batch
    quiet              \* no commit since this tick's snapshot

prog == <<marker_contexts, pending_updates, locks, call, pub_pc, markers, update_msg>>
hist == <<watch, event, del_phase, stagers, batch, noop_phase, sub_ids, sub_got, quiet>>
vars == <<prog, hist>>

Idle == [op |-> "idle", name |-> 0]
NoBatch == [ids |-> {}, fresh |-> FALSE, callers |-> 0]

\* ------------------------------------------------------------------ insert
\* A variant that keeps the update already staged for the name.
InsertResultKeepsFirst(pu, name, marker) ==
    IF name \in DOMAIN pu THEN pu
    ELSE Put(pu, name, [update_type |-> "Add", marker |-> marker])

\* lib.rs 88-104: entry(name).or_insert_with(Add, marker), then the entry's
\* type and marker are overwritten: the stage holds Add(marker) for name.
InsertResult(pu, name, marker) ==
    Put(pu, name, [update_type |-> "Add", marker |-> marker])

\* ------------------------------------------------------------------ delete
\* A variant that stages the Delete whether or not the store holds the name.
DeleteResultAlways(mc, pu, name) ==
    Put(pu, name, [update_type |-> "Delete",
                   marker |-> IF name \in DOMAIN mc THEN mc[name] ELSE NoMarker])

\* lib.rs 115-123: a Delete carrying a copy of the stored marker is staged
\* only when the store holds the name.
DeleteResult(mc, pu, name) ==
    IF name \in DOMAIN mc
    THEN Put(pu, name, [update_type |-> "Delete", marker |-> mc[name]])
    ELSE pu

\* lib.rs 112-113 and 128-129: delete and apply_changes take the store's
\* mutex, then the stage's. (LockOrderDeleteInverted is a variant in which
\* delete takes them the other way round.)
LockOrderDeleteInverted(op) ==
    IF op = "delete" THEN <<"stage", "store">> ELSE <<"store", "stage">>
LockOrder(op) == <<"store", "stage">>
FirstLock(op) == LockOrder(op)[1]
SecondLock(op) == LockOrder(op)[2]

\* ----------------------------------------------------------- apply_changes
\* A variant whose Add stores the caller's marker as it came, action included.
ApplyOneKeepsAction(mc, name, uc) ==
    CASE uc.update_type = "Add" ->
            IF name \in DOMAIN mc THEN mc ELSE Put(mc, name, uc.marker)
      [] uc.update_type = "Modify" ->
            IF name \in DOMAIN mc
            THEN [mc EXCEPT ![name] = [@ EXCEPT !.pose = uc.marker.pose,
                                                !.action = MODIFY]]
            ELSE mc
      [] uc.update_type = "Delete" ->
            IF name \in DOMAIN mc
            THEN [mc EXCEPT ![name] = [@ EXCEPT !.action = DELETE]]
            ELSE mc
      [] uc.update_type = "DeleteAll" ->
            [x \in DOMAIN mc |-> [mc[x] EXCEPT !.action = DELETEALL]]

\* A variant whose Add replaces the record the store holds.
ApplyOneAddOverwrites(mc, name, uc) ==
    CASE uc.update_type = "Add" ->
            Put(mc, name, [uc.marker EXCEPT !.action = ADD])
      [] uc.update_type = "Modify" ->
            IF name \in DOMAIN mc
            THEN [mc EXCEPT ![name] = [@ EXCEPT !.pose = uc.marker.pose,
                                                !.action = MODIFY]]
            ELSE mc
      [] uc.update_type = "Delete" ->
            IF name \in DOMAIN mc
            THEN [mc EXCEPT ![name] = [@ EXCEPT !.action = DELETE]]
            ELSE mc
      [] uc.update_type = "DeleteAll" ->
            [x \in DOMAIN mc |-> [mc[x] EXCEPT !.action = DELETEALL]]

\* lib.rs 138-165: one staged update applied to the store.
ApplyOne(mc, name, uc) ==
    CASE uc.update_type = "Add" ->
            IF name \in DOMAIN mc THEN mc
            ELSE Put(mc, name, [uc.marker EXCEPT !.action = ADD])
      [] uc.update_type = "Modify" ->
            IF name \in DOMAIN mc
            THEN [mc EXCEPT ![name] = [@ EXCEPT !.pose = uc.marker.pose,
                                                !.action = MODIFY]]
            ELSE mc
      [] uc.update_type = "Delete" ->
            IF name \in DOMAIN mc
            THEN [mc EXCEPT ![name] = [@ EXCEPT !.action = DELETE]]
            ELSE mc
      [] uc.update_type = "DeleteAll" ->
            [x \in DOMAIN mc |-> [mc[x] EXCEPT !.action = DELETEALL]]

RECURSIVE ApplyInOrder(_, _, _)
RECURSIVE ApplyAbortingOnDrop(_, _, _)

\* A variant that ends the pass at the first update whose target is absent.
ApplyAbortingOnDrop(mc, pu, order) ==
    IF order = << >> THEN mc
    ELSE LET n == Head(order) IN
         IF pu[n].update_type \in {"Modify", "Delete"} /\ n \notin DOMAIN mc
         THEN mc
         ELSE ApplyAbortingOnDrop(ApplyOne(mc, n, pu[n]), pu, Tail(order))

\* A variant that leaves the loop after the first staged update.
ApplyFirstOnly(mc, pu, order) ==
    IF order = << >> THEN mc ELSE ApplyOne(mc, Head(order), pu[Head(order)])

\* lib.rs 136-167: the loop over the stage, in the order the HashMap yields.
ApplyInOrder(mc, pu, order) ==
    IF order = << >> THEN mc
    ELSE ApplyInOrder(ApplyOne(mc, Head(order), pu[Head(order)]), pu, Tail(order))

\* A variant that rebuilds the store from the stage alone, with no fast path.
ApplyChangesRebuilding(mc, pu, order) == ApplyInOrder(EmptyMap, pu, order)

\* lib.rs 131-169: the store apply_changes leaves, for one iteration order.
ApplyChangesResult(mc, pu, order) ==
    IF pu = EmptyMap THEN mc ELSE ApplyInOrder(mc, pu, order)

\* -------------------------------------------------- marker_array_publisher
\* A variant that sends only the records tagged for removal (a delta).
UpdateMsgTaggedOnly(m) ==
    {m[x] : x \in {y \in DOMAIN m : m[y].action \in {DELETE, DELETEALL}}}

\* lib.rs 186-191: the MarkerArray holds a copy of every marker of the map
\* (the markers, not their names).
UpdateMsg(m) == {m[x] : x \in DOMAIN m}

\* lib.rs 194-196: publish(..).expect(..): a failed publish panics the task.
PublishNext(ok) == IF ok THEN "cleanup" ELSE "panicked"

RECURSIVE CleanupLoop(_, _, _)
RECURSIVE CleanupLoopSpecCodes(_, _, _)
RECURSIVE CleanupLoopShiftedCodes(_, _, _)

\* A variant that matches on 1 and 2 in place of 2 and 3.
CleanupLoopShiftedCodes(copy, todo, m) ==
    IF todo = {} THEN m
    ELSE LET name == CHOOSE x \in todo : TRUE
             m2 == CASE copy[name].action = 1 -> Remove(m, name)
                     [] copy[name].action = 2 -> EmptyMap
                     [] OTHER -> m
         IN CleanupLoopShiftedCodes(copy, todo \ {name}, m2)

\* A variant that matches on 3 and 4 in place of 2 and 3.
CleanupLoopSpecCodes(copy, todo, m) ==
    IF todo = {} THEN m
    ELSE LET name == CHOOSE x \in todo : TRUE
             m2 == CASE copy[name].action = 3 -> Remove(m, name)
                     [] copy[name].action = 4 -> EmptyMap
                     [] OTHER -> m
         IN CleanupLoopSpecCodes(copy, todo \ {name}, m2)

\* lib.rs 199-211: the loop over a copy of the local map; a removal of a
\* name already gone is a no-op.
CleanupLoop(copy, todo, m) ==
    IF todo = {} THEN m
    ELSE LET name == CHOOSE x \in todo : TRUE
             m2 == CASE copy[name].action = CleanupRemoveCode -> Remove(m, name)
                     [] copy[name].action = CleanupClearCode -> EmptyMap
                     [] OTHER -> m
         IN CleanupLoop(copy, todo \ {name}, m2)

Cleaned(m) == CleanupLoop(m, DOMAIN m, m)

\* lib.rs 213: the cleaned local map replaces the store, whatever the
\* store holds by then.
WriteBack(live, local) == Cleaned(local)

\* A variant that goes on to the next round whatever the tick returned.
TickNextIgnoresError(ok) == "snapshot"

\* lib.rs 215: timer.tick().await?: an error ends the loop and the task.
TickNext(ok) == IF ok THEN "snapshot" ELSE "returned"

\* -------------------------------------------------------------- subscriber
\* A consumer of the topic, as the specification describes it: it applies
\* the markers of a batch one by one, by action code.
SubApplyOne(ids, mk) ==
    CASE mk.action = DELETE -> ids \ {mk.id}
      [] mk.action = DELETEALL -> {}
      [] OTHER -> ids \cup {mk.id}

RECURSIVE SubApply(_, _)
SubApply(ids, order) ==
    IF order = << >> THEN ids
    ELSE SubApply(SubApplyOne(ids, Head(order)), Tail(order))

\* The batch may be delivered or lost; only a watched subscriber is modelled.
RecvChoices == IF watch = "sub" THEN BOOLEAN ELSE {FALSE}

\* ----------------------------------------------------------------- history
\* The maps before the step are kept only where a property reads them.
Detailed == watch \in {"none", "noop"}

Ev(op, name, marker, ok) ==
    [op |-> op, ok |-> ok,
     name |-> IF Detailed THEN name ELSE 0,
     marker |-> IF Detailed THEN marker ELSE NoMarker,
     mc |-> IF Detailed THEN marker_contexts ELSE EmptyMap,
     pu |-> IF Detailed THEN pending_updates ELSE EmptyMap,
     markers |-> IF Detailed THEN markers ELSE EmptyMap]

AddIds(pu) == {x \in DOMAIN pu : pu[x].update_type = "Add"}

\* What a step of kind op (by caller c, on name) adds to the history.
History(op, c, name) ==
    /\ watch' = watch
    /\ del_phase' =
         IF watch # "delete" THEN del_phase
         ELSE CASE op \in {"insert", "delete_lock"} -> [del_phase EXCEPT ![name] = 0]
                [] op = "apply_changes" ->
                     [x \in Names |->
                        IF /\ x \in DOMAIN pending_updates
                           /\ pending_updates[x].update_type = "Delete"
                           /\ x \in DOMAIN marker_contexts
                        THEN 1 ELSE del_phase[x]]
                [] op = "snapshot" ->
                     [x \in Names |-> IF del_phase[x] = 1 THEN 2 ELSE del_phase[x]]
                [] op = "cleanup" ->
                     [x \in Names |-> IF del_phase[x] = 2 THEN 3 ELSE del_phase[x]]
                [] OTHER -> del_phase
    /\ stagers' =
         IF watch # "batch" THEN stagers
         ELSE CASE op = "insert" -> stagers \cup {c}
                [] op = "apply_changes" -> {}
                [] OTHER -> stagers
    /\ batch' =
         IF watch # "batch" THEN batch
         ELSE CASE op = "apply_changes" ->
                     [ids |-> AddIds(pending_updates),
                      fresh |-> AddIds(pending_updates) \cap DOMAIN marker_contexts = {},
                      callers |-> IF Cardinality(stagers) > 1 THEN 2 ELSE 1]
                [] op = "delete_lock" /\ name \in batch.ids -> NoBatch
                [] OTHER -> batch
    /\ noop_phase' =
         IF watch # "noop" THEN noop_phase
         ELSE CASE op = "insert" -> [noop_phase EXCEPT ![name] = 0]
                [] op = "delete" ->
                     [noop_phase EXCEPT ![name] =
                        IF name \in DOMAIN marker_contexts THEN 0 ELSE 1]
                [] op = "apply_changes" ->
                     [x \in Names |-> IF noop_phase[x] = 1 THEN 2 ELSE 0]
                [] OTHER -> noop_phase
    /\ quiet' =
         IF watch # "sub" THEN quiet
         ELSE CASE op = "snapshot" -> TRUE
                [] op = "apply_changes" -> FALSE
                [] OTHER -> quiet

\* ----------------------------------------------------------------- actions
\* lib.rs 88-104: insert takes the stage's mutex, writes the entry and drops
\* the guard; nothing in between waits, so the whole is one step (as is the
\* part of delete and apply_changes that holds the stage's mutex).
insert(c, name, marker) ==
    /\ call[c] = Idle
    /\ locks["stage"] = 0
    /\ pending_updates' = InsertResult(pending_updates, name, marker)
    /\ event' = Ev("insert", name, marker, TRUE)
    /\ History("insert", c, name)
    /\ UNCHANGED <<marker_contexts, locks, call, pub_pc, markers, update_msg,
                   sub_ids, sub_got>>

\* lib.rs 112: delete's first mutex.
delete_lock(c, name) ==
    /\ call[c] = Idle
    /\ locks[FirstLock("delete")] = 0
    /\ locks' = [locks EXCEPT ![FirstLock("delete")] = c]
    /\ call' = [call EXCEPT ![c] = [op |-> "delete", name |-> name]]
    /\ event' = Ev("delete_lock", name, NoMarker, TRUE)
    /\ History("delete_lock", c, name)
    /\ UNCHANGED <<marker_contexts, pending_updates, pub_pc, markers, update_msg,
                   sub_ids, sub_got>>

\* lib.rs 113-124: the second mutex, the body, and both guards dropped.
delete(c) ==
    /\ call[c].op = "delete"
    /\ locks[FirstLock("delete")] = c
    /\ locks[SecondLock("delete")] = 0
    /\ pending_updates' = DeleteResult(marker_contexts, pending_updates, call[c].name)
    /\ locks' = [locks EXCEPT ![FirstLock("delete")] = 0]
    /\ call' = [call EXCEPT ![c] = Idle]
    /\ event' = Ev("delete", call[c].name, NoMarker, TRUE)
    /\ History("delete", c, call[c].name)
    /\ UNCHANGED <<marker_contexts, pub_pc, markers, update_msg, sub_ids, sub_got>>

\* lib.rs 128: apply_changes' first mutex.
apply_lock(c) ==
    /\ call[c] = Idle
    /\ locks[FirstLock("apply_changes")] = 0
    /\ locks' = [locks EXCEPT ![FirstLock("apply_changes")] = c]
    /\ call' = [call EXCEPT ![c] = [op |-> "apply_changes", name |-> 0]]
    /\ event' = Ev("apply_lock", 0, NoMarker, TRUE)
    /\ History("apply_lock", c, 0)
    /\ UNCHANGED <<marker_contexts, pending_updates, pub_pc, markers, update_msg,
                   sub_ids, sub_got>>

\* lib.rs 129-170: the second mutex, the loop, the clear, both guards dropped.
apply_changes(c) ==
    /\ call[c].op = "apply_changes"
    /\ locks[FirstLock("apply_changes")] = c
    /\ locks[SecondLock("apply_changes")] = 0
    /\ \E order \in Orders(DOMAIN pending_updates) :
          marker_contexts' = ApplyChangesResult(marker_contexts, pending_updates, order)
    /\ pending_updates' = EmptyMap
    /\ locks' = [locks EXCEPT ![FirstLock("apply_changes")] = 0]
    /\ call' = [call EXCEPT ![c] = Idle]
    /\ event' = Ev("apply_changes", 0, NoMarker, TRUE)
    /\ History("apply_changes", c, 0)
    /\ UNCHANGED <<pub_pc, markers, update_msg, sub_ids, sub_got>>

\* lib.rs 185-191: the store is locked, cloned and unlocked in one
\* statement, and the message is built from the clone.
snapshot ==
    /\ pub_pc = "snapshot"
    /\ locks["store"] = 0
    /\ markers' = marker_contexts
    /\ update_msg' = UpdateMsg(marker_contexts)
    /\ pub_pc' = "publish"
    /\ event' = Ev("snapshot", 0, NoMarker, TRUE)
    /\ History("snapshot", 0, 0)
    /\ sub_got' = FALSE
    /\ UNCHANGED <<marker_contexts, pending_updates, locks, call, sub_ids>>

\* lib.rs 194-196: the message is handed to the transport; recv says whether
\* the subscriber gets it.
publish(ok, recv) ==
    /\ pub_pc = "publish"
    /\ pub_pc' = PublishNext(ok)
    /\ event' = Ev("publish", 0, NoMarker, ok)
    /\ History("publish", 0, 0)
    /\ IF ok /\ recv
       THEN /\ \E order \in Orders(update_msg) : sub_ids' = SubApply(sub_ids, order)
            /\ sub_got' = TRUE
       ELSE UNCHANGED <<sub_ids, sub_got>>
    /\ UNCHANGED <<marker_contexts, pending_updates, locks, call, markers, update_msg>>

\* lib.rs 199-213: the cleanup loop on the local map, which then replaces
\* the store (and is moved out of the local variable).
cleanup ==
    /\ pub_pc = "cleanup"
    /\ locks["store"] = 0
    /\ marker_contexts' = WriteBack(marker_contexts, markers)
    /\ markers' = EmptyMap
    /\ update_msg' = {}
    /\ pub_pc' = "tick"
    /\ event' = Ev("cleanup", 0, NoMarker, TRUE)
    /\ History("cleanup", 0, 0)
    /\ UNCHANGED <<pending_updates, locks, call, sub_ids, sub_got>>

\* lib.rs 215: the await of the next tick, which may fail.
tick(ok) ==
    /\ pub_pc = "tick"
    /\ pub_pc' = TickNext(ok)
    /\ event' = Ev("tick", 0, NoMarker, ok)
    /\ History("tick", 0, 0)
    /\ UNCHANGED <<marker_contexts, pending_updates, locks, call, markers, update_msg,
                   sub_ids, sub_got>>

\* ---------------------------------------------------------- specifications
\* lib.rs 58-69: both maps empty, the publisher task spawned.
InitProg ==
    /\ marker_contexts = EmptyMap
    /\ pending_updates = EmptyMap
    /\ locks = [l \in {"store", "stage"} |-> 0]
    /\ call = [c \in Callers |-> Idle]
    /\ pub_pc = "snapshot"
    /\ markers = EmptyMap
    /\ update_msg = {}

InitHist(w) ==
    /\ watch = w
    /\ event = [op |-> "new", name |-> 0, marker |-> NoMarker, ok |-> TRUE,
                mc |-> EmptyMap, pu |-> EmptyMap, markers |-> EmptyMap]
    /\ del_phase = [x \in Names |-> 0]
    /\ stagers = {}
    /\ batch = NoBatch
    /\ noop_phase = [x \in Names |-> 0]
    /\ sub_ids = {}
    /\ sub_got = FALSE
    /\ quiet = FALSE

Init == InitProg /\ InitHist("none")

Next ==
    \/ \E c \in Callers, name \in Names : \E m \in InputMarkers(name) : insert(c, name, m)
    \/ \E c \in Callers, name \in Names : delete_lock(c, name)
    \/ \E c \in Callers : delete(c)
    \/ \E c \in Callers : apply_lock(c)
    \/ \E c \in Callers : apply_changes(c)
    \/ snapshot
    \/ \E ok \in BOOLEAN, recv \in RecvChoices : publish(ok, recv)
    \/ cleanup
    \/ \E ok \in BOOLEAN : tick(ok)

\* The server from construction on.
Spec == Init /\ [][Next]_vars

\* The same program, with one more history recorded.
InitDelete == InitProg /\ InitHist("delete")
SpecDelete == InitDelete /\ [][Next]_vars
InitBatch == InitProg /\ InitHist("batch")
SpecBatch == InitBatch /\ [][Next]_vars
InitNoop == InitProg /\ InitHist("noop")
SpecNoop == InitNoop /\ [][Next]_vars
InitSub == InitProg /\ InitHist("sub")
SpecSub == InitSub /\ [][Next]_vars

\* apply_changes and the publisher on every store and stage of the bounded
\* shapes below, the update types no public method stages (Modify,
\* DeleteAll) included.
StoredMarkers(name) ==
    {[InputMarker(name, i) EXCEPT !.action = a] :
        i \in 1..NumInputs, a \in {ADD, MODIFY, DELETE, DELETEALL}}
StagedUpdates(name) ==
    {[update_type |-> t, marker |-> m] : t \in UpdateType, m \in InputMarkers(name)}
MapsOver(S) ==
    UNION {{f \in [D -> UNION {S[x] : x \in D}] : \A x \in D : f[x] \in S[x]} :
             D \in SUBSET Names}

InitApply ==
    /\ marker_contexts \in MapsOver([x \in Names |-> StoredMarkers(x)])
    /\ pending_updates \in MapsOver([x \in Names |-> StagedUpdates(x)])
    /\ locks = [l \in {"store", "stage"} |-> 0]
    /\ call = [c \in Callers |-> Idle]
    /\ pub_pc = "snapshot"
    /\ markers = EmptyMap
    /\ update_msg = {}
    /\ InitHist("none")

NextApply ==
    \/ \E c \in Callers : apply_lock(c)
    \/ \E c \in Callers : apply_changes(c)
    \/ snapshot
    \/ \E ok \in BOOLEAN, recv \in RecvChoices : publish(ok, recv)
    \/ cleanup
    \/ \E ok \in BOOLEAN : tick(ok)

SpecApply == InitApply /\ [][NextApply]_vars

\* ================================================================== claims

NoneOrAll(have, ids) == have \cap ids = {} \/ ids \subseteq have

\* ----------------------------------------------------------------------- C1
\* C1, as stated: whatever the store holds, once a commit has drained a
\* staged Add(x, m) the store holds x with action ADD and payload m.
C1_InsertCommitAddsAlways ==
    event.op = "apply_changes" =>
        \A x \in AddIds(event.pu) :
            /\ x \in DOMAIN marker_contexts
            /\ marker_contexts[x] = [event.pu[x].marker EXCEPT !.action = ADD]

\* C1, amended: a commit that drains a staged Add(x, m) creates x with action
\* ADD and payload m when x was absent from the store, and leaves x's record
\* as it was when x was present.
C1_InsertCommitAddsIfAbsent ==
    event.op = "apply_changes" =>
        \A x \in AddIds(event.pu) :
            /\ x \in DOMAIN marker_contexts
            /\ marker_contexts[x] =
                 IF x \in DOMAIN event.mc THEN event.mc[x]
                 ELSE [event.pu[x].marker EXCEPT !.action = ADD]

\* A commit has just created one marker from an insert whose marker carried
\* another action code, and passed over an insert for a marker the store held
\* with another payload.
C1_Witness ==
    /\ event.op = "apply_changes"
    /\ \E x, y \in AddIds(event.pu) :
          /\ x \notin DOMAIN event.mc
          /\ event.pu[x].marker.action # ADD
          /\ marker_contexts[x].action = ADD
          /\ marker_contexts[x].pose = event.pu[x].marker.pose
          /\ y \in DOMAIN event.mc
          /\ event.pu[y].marker.pose # event.mc[y].pose

\* ----------------------------------------------------------------------- C2
\* C2: the cleanup step keeps everything the store held just before it,
\* except the records the cleanup rule removes (a record tagged DELETE, or
\* every record when one is tagged DELETEALL).
C2_CleanupKeepsLiveStore ==
    event.op = "cleanup" =>
        \A x \in DOMAIN event.mc :
            \/ x \in DOMAIN marker_contexts /\ marker_contexts[x] = event.mc[x]
            \/ event.mc[x].action = DELETE
            \/ x \in DOMAIN event.markers /\ event.markers[x].action = DELETE
            \/ \E y \in DOMAIN event.mc : event.mc[y].action = DELETEALL
            \/ \E y \in DOMAIN event.markers : event.markers[y].action = DELETEALL

\* ----------------------------------------------------------------------- C3
\* C3: once a commit has tagged x Delete and the publisher has then run a
\* whole tick (snapshot, publish, cleanup), with no further insert or delete
\* of x, x is absent from the store.
C3_DeletedAfterOneTick ==
    \A x \in Names : del_phase[x] = 3 => x \notin DOMAIN marker_contexts

\* ----------------------------------------------------------------------- C4
\* The stage holds a DeleteAll update.
C4_DeleteAllStaged ==
    \E n \in DOMAIN pending_updates : pending_updates[n].update_type = "DeleteAll"

\* C4: the server has a deleteAll operation: whenever a caller is idle and no
\* lock is held, some step of the server stages a DeleteAll update.
C4_DeleteAllExposed ==
    ((\E c \in Callers : call[c] = Idle) /\ locks["store"] = 0 /\ locks["stage"] = 0)
        => ENABLED (Next /\ C4_DeleteAllStaged')

\* ----------------------------------------------------------------------- C5
\* C5, as stated: after a commit has drained inserts of N distinct ids, the
\* store and every snapshot the publisher holds contain none or all of them.
C5_BatchNoneOrAll ==
    batch.ids # {} =>
        /\ NoneOrAll(DOMAIN marker_contexts, batch.ids)
        /\ pub_pc \in {"publish", "cleanup"} => NoneOrAll(DOMAIN markers, batch.ids)

\* C5, amended: the same for inserts of ids that were all absent from the
\* store when the commit ran (until one of them is deleted or the next
\* commit).
C5_FreshBatchNoneOrAll ==
    (batch.ids # {} /\ batch.fresh) =>
        /\ NoneOrAll(DOMAIN marker_contexts, batch.ids)
        /\ pub_pc \in {"publish", "cleanup"} => NoneOrAll(DOMAIN markers, batch.ids)

\* Two callers inserted two new ids, one commit drained them, and the
\* publisher holds a snapshot with both.
C5_Witness ==
    /\ batch.fresh
    /\ Cardinality(batch.ids) >= 2
    /\ batch.callers = 2
    /\ pub_pc = "publish"
    /\ batch.ids \subseteq DOMAIN markers

\* ----------------------------------------------------------------------- C6
\* C6: when the subscriber has received the batch of a tick whose snapshot no
\* commit followed, then after that tick's cleanup it holds exactly the ids
\* of the store.
C6_SubscriberConverges ==
    (pub_pc = "tick" /\ sub_got /\ quiet) => sub_ids = DOMAIN marker_contexts

\* ----------------------------------------------------------------------- C7
\* C7: a failed publish leaves the publisher task running.
C7_PublishFailureNonFatal ==
    (event.op = "publish" /\ ~event.ok) => pub_pc \notin {"panicked", "returned"}

\* ----------------------------------------------------------------------- C8
\* delete(x) on an x the store does not hold changes neither map.
NoopDeleteChangesNothing ==
    (event.op = "delete" /\ event.name \notin DOMAIN event.mc) =>
        /\ pending_updates = event.pu
        /\ marker_contexts = event.mc

\* C8, as stated: such a delete changes nothing, and the commit after it
\* does not create x.
C8_NoopDeleteNeverCreated ==
    /\ NoopDeleteChangesNothing
    /\ \A x \in Names : noop_phase[x] = 2 => x \notin DOMAIN marker_contexts

\* C8, amended: such a delete changes nothing, and the commit after it creates
\* x exactly when an Add for x was staged (an insert the delete left alone).
C8_NoopDeleteLeavesStage ==
    /\ NoopDeleteChangesNothing
    /\ \A x \in Names :
          (event.op = "apply_changes" /\ noop_phase[x] = 2) =>
              (x \in DOMAIN marker_contexts <=> x \in AddIds(event.pu))

\* A commit that applied other updates has followed a delete of an absent x,
\* and x is still absent.
C8_Witness ==
    /\ event.op = "apply_changes"
    /\ event.pu # EmptyMap
    /\ \E x \in Names : noop_phase[x] = 2 /\ x \notin DOMAIN marker_contexts

\* ----------------------------------------------------------------------- C9
\* C9: a commit on an empty stage leaves the store as it was and the stage
\* empty (so does every commit that directly follows a commit).
C9_EmptyCommitNoop ==
    (event.op = "apply_changes" /\ event.pu = EmptyMap) =>
        /\ marker_contexts = event.mc
        /\ pending_updates = EmptyMap

\* A commit on an empty stage has run on a store that holds a record tagged
\* Delete, and the record is still there.
C9_Witness ==
    /\ event.op = "apply_changes"
    /\ event.pu = EmptyMap
    /\ \E x \in DOMAIN marker_contexts : marker_contexts[x].action = DELETE

\* ---------------------------------------------------------------------- C10
\* The action code the update staged for x alone gives x's record.
OwnCode(x, add, modify, del) ==
    LET u == event.pu[x] IN
    CASE u.update_type = "Add" /\ x \notin DOMAIN event.mc -> add
      [] u.update_type = "Modify" /\ x \in DOMAIN event.mc -> modify
      [] u.update_type = "Delete" /\ x \in DOMAIN event.mc -> del
      [] OTHER -> IF x \in DOMAIN event.mc THEN event.mc[x].action ELSE -1

\* The wire schema with the given codes: what a commit writes on the records
\* its updates touch, what a batch carries, what the cleanup purges on.
WireSchema(add, modify, del, delall) ==
    /\ event.op = "apply_changes" =>
          \A x \in DOMAIN marker_contexts :
              IF \E k \in DOMAIN event.pu : event.pu[k].update_type = "DeleteAll"
              THEN \/ marker_contexts[x].action = delall
                   \/ x \in DOMAIN event.pu
                        /\ marker_contexts[x].action = OwnCode(x, add, modify, del)
              ELSE x \in DOMAIN event.pu =>
                       marker_contexts[x].action = OwnCode(x, add, modify, del)
    /\ event.op = "snapshot" =>
          update_msg = {marker_contexts[x] : x \in DOMAIN marker_contexts}
    /\ event.op = "cleanup" =>
          marker_contexts =
              IF \E x \in DOMAIN event.markers : event.markers[x].action = delall
              THEN EmptyMap
              ELSE [x \in {y \in DOMAIN event.markers : event.markers[y].action # del}
                      |-> event.markers[x]]

\* C10, as stated: 1 = Add, 2 = Modify, 3 = Delete, 4 = DeleteAll.
C10_SpecWireSchema == WireSchema(1, 2, 3, 4)

\* C10, amended: the codes are Marker's: Add and Modify both 0, Delete 2,
\* DeleteAll 3; the cleanup purges on 2 and clears on 3.
C10_MarkerWireSchema == WireSchema(ADD, MODIFY, DELETE, DELETEALL)

\* The cleanup has purged a record that carried code 2 and kept another.
C10_Witness ==
    /\ event.op = "cleanup"
    /\ marker_contexts # EmptyMap
    /\ \E x \in DOMAIN event.markers :
          event.markers[x].action = 2 /\ x \notin DOMAIN marker_contexts

\* ---------------------------------------------------------------------- C11
\* C11: no step but the publisher's cleanup takes a record out of the store,
\* and the cleanup takes out only records that were in the snapshot whose
\* batch it has just published.
C11_ErasedOnlyAfterPublished ==
    /\ event.op \notin {"new", "cleanup"} =>
          DOMAIN event.mc \subseteq DOMAIN marker_contexts
    /\ event.op = "cleanup" =>
          \A x \in DOMAIN event.mc \ DOMAIN marker_contexts : x \in DOMAIN event.markers

\* ---------------------------------------------------------------------- C12
\* C12: a commit leaves every record whose id has a staged Add exactly as it
\* was, and the records it creates are those of the staged Adds for absent
\* ids, each with action ADD.
C12_AddLeavesExisting ==
    event.op = "apply_changes" =>
        /\ \A x \in AddIds(event.pu) \cap DOMAIN event.mc :
              marker_contexts[x] = event.mc[x]
        /\ \A x \in DOMAIN marker_contexts \ DOMAIN event.mc :
              x \in AddIds(event.pu) /\ marker_contexts[x].action = ADD

\* A commit has passed over an Add for a record tagged DELETE whose payload
\* differs from the staged one.
C12_Witness ==
    /\ event.op = "apply_changes"
    /\ \E x \in AddIds(event.pu) \cap DOMAIN event.mc :
          /\ event.mc[x].action = DELETE
          /\ event.pu[x].marker.pose # event.mc[x].pose
          /\ marker_contexts[x] = event.mc[x]

\* ---------------------------------------------------------------------- C13
\* The stage holds a DeleteAll update.
HasDeleteAll(pu) == \E k \in DOMAIN pu : pu[k].update_type = "DeleteAll"

Dropped(x) ==
    event.pu[x].update_type \in {"Modify", "Delete"} /\ x \notin DOMAIN event.mc

\* C14: a commit leaves the stage empty; a Modify or Delete for an absent id
\* creates nothing, and every other update of the pass is applied: an Add
\* for an absent id creates it with its payload, a Modify sets the pose, a
\* Delete tags the record, a DeleteAll tags every record no other update
\* names; no commit removes a record.
C14_CommitDrainsStage ==
    event.op = "apply_changes" =>
        /\ pending_updates = EmptyMap
        /\ DOMAIN event.mc \subseteq DOMAIN marker_contexts
        /\ \A x \in DOMAIN event.pu :
              LET u == event.pu[x] IN
              CASE Dropped(x) -> x \notin DOMAIN marker_contexts
                [] u.update_type = "Add" ->
                      /\ x \in DOMAIN marker_contexts
                      /\ x \notin DOMAIN event.mc =>
                            /\ marker_contexts[x].pose = u.marker.pose
                            /\ marker_contexts[x].shape = u.marker.shape
                [] u.update_type = "Modify" ->
                      marker_contexts[x].pose = u.marker.pose
                [] u.update_type = "Delete" ->
                      marker_contexts[x].action \in {DELETE, DELETEALL}
                [] OTHER ->
                      \A y \in DOMAIN event.mc \ DOMAIN event.pu :
                          marker_contexts[y].action = DELETEALL

\* A commit has dropped a Modify or Delete for an absent id and created
\* another id from an Add of the same pass.
C14_Witness ==
    /\ event.op = "apply_changes"
    /\ \E x, y \in DOMAIN event.pu :
          /\ Dropped(x)
          /\ x \notin DOMAIN marker_contexts
          /\ event.pu[y].update_type = "Add"
          /\ y \notin DOMAIN event.mc
          /\ y \in DOMAIN marker_contexts

\* ---------------------------------------------------------------------- C15
\* C15: insert and delete leave the store as it was; after insert(x, m) the
\* stage holds Add(m) for x in place of whatever it held for x, and holds
\* for every other id what it held; after delete(x) it holds Delete for x
\* when the store holds x and is unchanged otherwise.
C15_StagingLastWriteWins ==
    /\ event.op \in {"insert", "delete_lock", "delete"} => marker_contexts = event.mc
    /\ event.op = "delete_lock" => pending_updates = event.pu
    /\ event.op = "insert" =>
          /\ DOMAIN pending_updates = DOMAIN event.pu \cup {event.name}
          /\ pending_updates[event.name] =
                [update_type |-> "Add", marker |-> event.marker]
          /\ \A x \in DOMAIN event.pu \ {event.name} : pending_updates[x] = event.pu[x]
    /\ event.op = "delete" =>
          IF event.name \in DOMAIN event.mc
          THEN /\ DOMAIN pending_updates = DOMAIN event.pu \cup {event.name}
               /\ pending_updates[event.name].update_type = "Delete"
               /\ \A x \in DOMAIN event.pu \ {event.name} :
                     pending_updates[x] = event.pu[x]
          ELSE pending_updates = event.pu

\* An insert for an id the store holds has replaced a staged Delete.
C15_Witness ==
    /\ event.op = "insert"
    /\ event.name \in DOMAIN event.mc
    /\ event.name \in DOMAIN event.pu
    /\ event.pu[event.name].update_type = "Delete"
    /\ pending_updates[event.name].update_type = "Add"

\* ---------------------------------------------------------------------- C16
\* C16: the snapshot is the store as it is at that moment, and the batch
\* built from it holds exactly the snapshot's records, one per id, each with
\* its stored payload and action.
C16_BatchIsFullSnapshot ==
    /\ event.op = "snapshot" => markers = event.mc /\ marker_contexts = event.mc
    /\ pub_pc \in {"publish", "cleanup"} =>
          /\ \A x \in DOMAIN markers : markers[x] \in update_msg
          /\ \A mk \in update_msg : \E x \in DOMAIN markers : markers[x] = mk
          /\ Cardinality(update_msg) = Cardinality(DOMAIN markers)

\* A batch with an untagged record and a record tagged DELETE has been
\* published.
C16_Witness ==
    /\ pub_pc = "cleanup"
    /\ \E x, y \in DOMAIN markers :
          /\ markers[x].action = ADD
          /\ markers[y].action = DELETE
          /\ {markers[x], markers[y]} \subseteq update_msg

\* ---------------------------------------------------------------------- C17
\* C17: a caller that holds its first lock can always take its second and
\* finish, and some participant can always take a step: no state has every
\* participant blocked on a lock.
C17_NoDeadlock ==
    /\ \A c \in Callers : call[c] # Idle => ENABLED (delete(c) \/ apply_changes(c))
    /\ ENABLED Next

\* A caller holds the store's lock while the publisher waits to write back
\* and updates are staged.
C17_Witness ==
    /\ locks["store"] # 0
    /\ pub_pc = "cleanup"
    /\ pending_updates # EmptyMap

\* ---------------------------------------------------------------------- C18
\* C18: a failed tick ends the loop; once it has ended no publisher step can
\* be taken (no batch, no change to the store), while every caller can still
\* insert, and delete and commit as the store's lock allows.
C18_TickFailureEndsLoop ==
    /\ (event.op = "tick" /\ ~event.ok) => pub_pc = "returned"
    /\ pub_pc = "returned" =>
          /\ ~ ENABLED (snapshot \/ cleanup
                          \/ (\E ok \in BOOLEAN, recv \in RecvChoices : publish(ok, recv))
                          \/ (\E ok \in BOOLEAN : tick(ok)))
          /\ \A c \in Callers :
                IF call[c] = Idle
                THEN /\ \A name \in Names : \A m \in InputMarkers(name) :
                           ENABLED insert(c, name, m)
                     /\ locks["store"] = 0 =>
                           /\ \A name \in Names : ENABLED delete_lock(c, name)
                           /\ ENABLED apply_lock(c)
                ELSE ENABLED (delete(c) \/ apply_changes(c))

\* After the loop has ended a commit has put a record into the empty store.
C18_Witness ==
    /\ pub_pc = "returned"
    /\ event.op = "apply_changes"
    /\ event.mc = EmptyMap
    /\ marker_contexts # EmptyMap

====
